---- MODULE Spec2Model ----
(***************************************************************************)
(* Model of the gerrit-monitor service worker (badge.js): the per-host     *)
(* result cache fetchCache, the fan-out/fan-in fetchCls, fetchAndUpdate,   *)
(* update (alarm re-scheduling and badge derivation), onAlarm, the message *)
(* listener of newMessageProxy with the request getSearchResults of the    *)
(* popup, and the service worker event listeners.                          *)
(*                                                                         *)
(* JavaScript runs one task at a time: every action below is one task      *)
(* together with the microtasks it drains.  A suspension that waits for    *)
(* the outside world (storage, network, notifications) ends the action.    *)
(***************************************************************************)
EXTENDS Integers, Sequences, FiniteSets, TLC

\* ------------------------------------------------------------- bounds
\* The clock stops at MaxTime.
MaxTime == 2

\* -------------------------------------------------- program constants
\* config.REVIEW_CACHE_DURATION_IN_MILLISECONDS, in ticks of the clock
REVIEW_CACHE_DURATION == 1
\* config.REFRESH_DELAY_IN_MINUTES, in ticks of the clock
REFRESH_DELAY == 2

Range(s) == { s[i] : i \in 1..Len(s) }

AlarmName == "auto-refresh"
NO_HOST_ALLOWED == "NO_HOST_ALLOWED"

Hosts == {"A", "B"}

\* The host arrays a caller can pass: the allowed instances, which onAlarm
\* and the popup both list in the order of the options (A before B).
HostLists == {<<>>, <<"A">>, <<"B">>, <<"A", "B">>}

\* The browser.FetchError values the client of a host can reject with.
FetchErrors(host) ==
  IF host = "A"
    THEN { [message |-> "HTTP 401", is_login_error |-> TRUE] }
    ELSE { [message |-> "HTTP 500", is_login_error |-> FALSE] }

\* Attention categories, in the order the badge walks them.
SECTION_ORDERING == <<"stale", "needsAttention", "outgoing", "readyToSubmit">>

\* messages.BADGE_DATA[label] !== null: the categories that have badge data.
HasBadgeData(label) == label # "stale"

NoItems == [l \in Range(SECTION_ORDERING) |-> 0]

\* The values gerrit.fetchReviews(host, account) can resolve to: the host and
\* the number of its changes in each attention category.
ReviewsOf(host) ==
  IF host = "A"
    THEN { [host |-> host,
            items |-> [NoItems EXCEPT !["stale"] = 1,
                                      !["outgoing"] = 2,
                                      !["readyToSubmit"] = 1]] }
    ELSE { [host |-> host, items |-> NoItems] }

NoEntry == <<>>
NoDescr ==
  [ text |-> "none", color |-> "none", title |-> <<"none", "">>, icon |-> "none" ]

VARIABLES
  clock,        \* the wall clock read by new Date()
  fetchCache,   \* host -> NoEntry or <<timestamp, cached>>
  alarms,       \* the alarms chrome.alarms holds for this extension
  pendingGet,   \* chrome.alarms.get callbacks not yet delivered
  passes,       \* the onAlarm / getSearchResults invocations
  badge         \* what browser.updateBadge last received

vars == <<clock, fetchCache, alarms, pendingGet, passes, badge>>

\* The invocations that can be suspended at the same time: one of onAlarm
\* (started by the onInstalled, onStartup or onAlarm listener) and one of
\* getSearchResults (started by a message of the popup).  A finished
\* invocation gives its place to the next one of its kind.  The place of
\* getSearchResults also records a message that names no operation.
PassIds == {"onAlarm", "getSearchResults"}

\* request and channel belong to the message listener: the message received,
\* and what the listener has done on its channel (its return or throw, and
\* the calls of reply), in order.  sinks lists the calls of
\* browser.updateBadge and notifications.notify made by the invocation.
UnusedPass ==
  [ origin   |-> "none",
    pc       |-> "unused",
    outcome  |-> "none",
    hosts    |-> {},
    reused   |-> {},
    inflight |-> {},
    results  |-> <<>>,
    errors   |-> <<>>,
    request  |-> <<>>,
    channel  |-> <<>>,
    sinks    |-> <<>> ]

\* ----------------------------------------------------- newMessageProxy
\* The operations of the handler object (class RequestProxy).
Commands == {"getSearchResults"}

\* Names a message can carry that are no operation of the handler: a name
\* the handler does not have, and one it inherits from Object.prototype.
UnknownCommands == {"refresh", "toString"}

\* String(error) for an Error with the given message.
ErrorString(message) == <<"Error: ", message>>

\* The rejection of notifications.notify
NotifyError == "notify failed"

\* JSON.parse(JSON.stringify(value)) of what fetchAndUpdate returns: the
\* reviews and the {host, error} pairs as plain data, in their order.
Canonical(p) == [results |-> p.results, errors |-> p.errors]

\* reply(response) has been called on the channel.
HasResponded(channel) == \E k \in 1..Len(channel) : channel[k].ev = "reply"

\* Variant: the listener returns hasResponded.
ListenerReturns_NotNegated(channel) ==
  Append(channel, [ev |-> "return", value |-> HasResponded(channel)])

\* return !hasResponded
ListenerReturns(channel) ==
  Append(channel, [ev |-> "return", value |-> ~HasResponded(channel)])

\* Variant: then() is given no rejection callback.
ReplyError_Dropped(channel, message) == channel

\* reply({error: String(error)})
ReplyError(channel, message) ==
  Append(channel, [ev |-> "reply", response |-> [error |-> ErrorString(message)]])

\* reply({value: JSON.parse(JSON.stringify(value))})
ReplyValue(channel, p) ==
  Append(channel, [ev |-> "reply", response |-> [value |-> Canonical(p)]])

\* The listener of newMessageProxy has called the operation and has
\* returned: the callbacks given to then() run in a later microtask, so
\* nothing is on the channel when the return value is computed.
ProxyCalled(request) ==
  [UnusedPass EXCEPT !.origin = "onMessage",
                     !.request = request,
                     !.channel = ListenerReturns(<<>>)]

\* ------------------------------------------------------ chrome.alarms
\* Variant: an alarm is added without replacing the one of the same name.
AlarmsCreate_NoReplace(as, name, when) ==
  as \cup { [name |-> name, scheduledTime |-> when] }

\* chrome.alarms.create(name, {delayInMinutes}): an alarm of the same name is
\* cancelled and replaced.
AlarmsCreate(as, name, when) ==
  { a \in as : a.name # name } \cup { [name |-> name, scheduledTime |-> when] }

\* chrome.alarms.clear(name)
AlarmsClear(as, name) == { a \in as : a.name # name }

\* ---------------------------------------------------------- fetchCls
\* Variant: the comparison with the cache duration is inverted.
Fresh_Inverted(entry, now) ==
  /\ entry # NoEntry
  /\ now - entry[1] >= REVIEW_CACHE_DURATION

\* fetchCache[host] is set and now - timestamp < REVIEW_CACHE_DURATION
Fresh(entry, now) ==
  /\ entry # NoEntry
  /\ now - entry[1] < REVIEW_CACHE_DURATION

\* if (cached.error)
HasError(cached) == "error" \in DOMAIN cached

\* The synchronous part of hosts.map(async (host) => ...): the hosts whose
\* callback returns from the cache, in array order.
ReusedHosts(hosts, cache, now) ==
  SelectSeq(hosts, LAMBDA h : Fresh(cache[h], now))

CachedErrors(hosts, cache, now) ==
  LET hs == SelectSeq(ReusedHosts(hosts, cache, now),
                      LAMBDA h : HasError(cache[h][2]))
  IN [i \in 1..Len(hs) |-> [host |-> hs[i], error |-> cache[hs[i]][2].error]]

CachedResults(hosts, cache, now) ==
  LET hs == SelectSeq(ReusedHosts(hosts, cache, now),
                      LAMBDA h : ~HasError(cache[h][2]))
  IN [i \in 1..Len(hs) |-> cache[hs[i]][2].reviews]

\* Variant: a host that another invocation is fetching is not fetched again
\* (a single-flight guard).
StartedFetch_SingleFlight(p, hosts, cache, now) ==
  [ p EXCEPT
      !.pc = "fetch",
      !.hosts = Range(hosts),
      !.reused = Range(ReusedHosts(hosts, cache, now)),
      !.inflight = (Range(hosts) \ Range(ReusedHosts(hosts, cache, now)))
                      \ UNION { passes[j].inflight : j \in PassIds },
      !.results = CachedResults(hosts, cache, now),
      !.errors = CachedErrors(hosts, cache, now) ]

\* The pass record right after fetchCls has run up to its await.
StartedFetch(p, hosts, cache, now) ==
  [ p EXCEPT
      !.pc = "fetch",
      !.hosts = Range(hosts),
      !.reused = Range(ReusedHosts(hosts, cache, now)),
      !.inflight = Range(hosts) \ Range(ReusedHosts(hosts, cache, now)),
      !.results = CachedResults(hosts, cache, now),
      !.errors = CachedErrors(hosts, cache, now) ]


\* ------------------------------------------------------------- update
\* gerrit.SearchResults.getCategoryMap: label -> number of items, over the
\* labels that have at least one item.
RECURSIVE CategoryCount(_, _)
CategoryCount(results, label) ==
  IF results = <<>> THEN 0
  ELSE Head(results).items[label] + CategoryCount(Tail(results), label)

CategoryMapHas(results, label) == CategoryCount(results, label) > 0

\* String(count), for the counts two hosts can add up to.
String(count) == <<"0", "1", "2", "3", "4", "5", "6">>[count + 1]

\* The descriptor update() makes from messages.BADGE_DATA[label]: the text is
\* the count, the title is data.formatTitle(count).
BADGE_DATA(label, count) ==
  [ text |-> String(count), color |-> label,
    title |-> <<label, String(count)>>, icon |-> label ]

\* messages.DEFAULT_BADGE_DATA
DEFAULT_BADGE_DATA ==
  [ text |-> "", color |-> "default", title |-> <<"default", "">>,
    icon |-> "default" ]

ErrorBadge(error) ==
  [ text |-> "!", color |-> "red", title |-> <<"Error: ", error.message>>,
    icon |-> "ic_assignment_late" ]

\* Variant: a later label replaces an earlier one, so that the last label
\* present decides.
FirstSection_Last(results) ==
  LET present == SelectSeq(SECTION_ORDERING,
                           LAMBDA l : CategoryMapHas(results, l) /\ HasBadgeData(l))
  IN IF present = <<>> THEN "none" ELSE present[Len(present)]

\* SECTION_ORDERING.forEach: the first label that is present in the category
\* map and has badge data; "none" when updateData stays null.
FirstSection(results) ==
  LET present == SelectSeq(SECTION_ORDERING,
                           LAMBDA l : CategoryMapHas(results, l) /\ HasBadgeData(l))
  IN IF present = <<>> THEN "none" ELSE present[1]

\* Variant: the categories are looked at first, the errors only when there
\* are no results.
UpdateData_ResultsFirst(wrapper) ==
  IF Len(wrapper.errors) # 0 /\ Len(wrapper.results) = 0
    THEN ErrorBadge(wrapper.errors[1].error)
    ELSE IF FirstSection(wrapper.results) # "none"
      THEN BADGE_DATA(FirstSection(wrapper.results),
                      CategoryCount(wrapper.results, FirstSection(wrapper.results)))
      ELSE DEFAULT_BADGE_DATA

UpdateData(wrapper) ==
  IF Len(wrapper.errors) # 0
    THEN ErrorBadge(wrapper.errors[1].error)
    ELSE IF FirstSection(wrapper.results) # "none"
      THEN BADGE_DATA(FirstSection(wrapper.results),
                      CategoryCount(wrapper.results, FirstSection(wrapper.results)))
      ELSE DEFAULT_BADGE_DATA

\* Variant: update() cancels the pending alarm and does not create one.
UpdateAlarms_ClearOnly(as, t) == AlarmsClear(as, AlarmName)

\* Variant: update() leaves the alarms as they are.
UpdateAlarms_Keep(as, t) == as

\* The alarms after update(): clear, then create with the fixed delay.
UpdateAlarms(as, t) ==
  AlarmsCreate(AlarmsClear(as, AlarmName), AlarmName, t + REFRESH_DELAY)

\* fetchAndUpdate after fetchCls has returned: update(results), then the call
\* of notifications.notify, whose promise is awaited.
\* Variant: notifications.notify is called before update().
AfterFetchCls_NotifyFirst(p) ==
  [p EXCEPT !.pc = "notify", !.reused = {},
            !.sinks = @ \o <<"notify", "updateBadge">>]

AfterFetchCls(p) ==
  [p EXCEPT !.pc = "notify", !.reused = {},
            !.sinks = @ \o <<"updateBadge", "notify">>]

\* Variant: fetchCls goes on as soon as one host has settled (join-any).
Joined_Any(p) == p.inflight # p.hosts

\* Variant: the promise of Promise.allSettled never resolves.
Joined_Never(p) == FALSE

\* Promise.allSettled: fetchCls goes on only when no host is in flight.
\* `p` is the pass after a step of fetchCls; the result is the pass, the
\* alarms and the badge once the microtasks of that step have run.
Joined(p) == p.inflight = {}

PassAfterJoin(p) == IF Joined(p) THEN AfterFetchCls(p) ELSE p

\* Variant: the alarm is re-scheduled at every step of fetchCls, whether or
\* not the hosts have settled.
AlarmsAfterJoin_Eager(p) == UpdateAlarms(alarms, clock)

AlarmsAfterJoin(p) == IF Joined(p) THEN UpdateAlarms(alarms, clock) ELSE alarms
BadgeAfterJoin(p) ==
  IF Joined(p) THEN UpdateData([results |-> p.results, errors |-> p.errors])
  ELSE badge

\* ------------------------------------------------------------- state
Init ==
  /\ clock = 0
  /\ fetchCache = [h \in Hosts |-> NoEntry]
  /\ alarms = {}
  /\ pendingGet = 0
  /\ passes = [i \in PassIds |-> UnusedPass]
  /\ badge = NoDescr

Free(i) == passes[i].pc \in {"unused", "done"}

\* Time passes.
Tick ==
  /\ clock < MaxTime
  /\ clock' = clock + 1
  /\ UNCHANGED <<fetchCache, alarms, pendingGet, passes, badge>>

\* onAlarm() up to its first await (browser.loadOptions); `listener` is the
\* event listener that called it.
OnAlarmCalled(listener) == [UnusedPass EXCEPT !.origin = listener, !.pc = "load"]

\* The service worker as the browser starts it for onInstalled and
\* onStartup: the module is evaluated anew (var fetchCache = {}), nothing is
\* suspended, and the first invocation of onAlarm() is under way.
FreshWorker(listener) ==
  /\ fetchCache' = [h \in Hosts |-> NoEntry]
  /\ passes' = [i \in PassIds |->
                  IF i = "onAlarm" THEN OnAlarmCalled(listener) ELSE UnusedPass]
  /\ badge' = NoDescr

\* chrome.runtime.onInstalled listener: the extension or the browser is
\* installed or updated; an alarm of the last session may have been kept.
OnInstalled(kept) ==
  /\ FreshWorker("onInstalled")
  /\ alarms' = AlarmsCreate(IF kept THEN alarms ELSE {}, AlarmName,
                            clock + REFRESH_DELAY)
  /\ pendingGet' = 0
  /\ UNCHANGED clock

\* chrome.runtime.onStartup listener: the browser starts; the alarm of the
\* last session may or may not have been kept.
OnStartup(kept) ==
  /\ FreshWorker("onStartup")
  /\ alarms' = IF kept THEN alarms ELSE {}
  /\ pendingGet' = 1
  /\ UNCHANGED clock

\* Variant: the callback creates the alarm whether or not one exists.
AlarmsGetCallback_Always ==
  /\ pendingGet > 0
  /\ pendingGet' = pendingGet - 1
  /\ alarms' = AlarmsCreate(alarms, AlarmName, clock + REFRESH_DELAY)
  /\ UNCHANGED <<clock, fetchCache, passes, badge>>

\* The callback of chrome.alarms.get('auto-refresh', ...) in onStartup
AlarmsGetCallback ==
  /\ pendingGet > 0
  /\ pendingGet' = pendingGet - 1
  /\ alarms' = IF \E a \in alarms : a.name = AlarmName
                 THEN alarms
                 ELSE AlarmsCreate(alarms, AlarmName, clock + REFRESH_DELAY)
  /\ UNCHANGED <<clock, fetchCache, passes, badge>>

\* chrome.alarms.onAlarm listener: the alarm is due, is consumed, and
\* onAlarm() is called.
AlarmFires ==
  /\ Free("onAlarm")
  /\ \E a \in alarms :
       /\ a.name = AlarmName
       /\ clock >= a.scheduledTime
       /\ alarms' = alarms \ {a}
  /\ passes' = [passes EXCEPT !["onAlarm"] = OnAlarmCalled("onAlarm")]
  /\ UNCHANGED <<clock, fetchCache, pendingGet, badge>>

\* onAlarm: loadOptions or fetchAllowedInstances rejects; the error is caught.
OnAlarmLoadFails(i) ==
  /\ passes[i].pc = "load"
  /\ passes' = [passes EXCEPT ![i] =
       [UnusedPass EXCEPT !.origin = passes[i].origin,
                          !.pc = "done", !.outcome = "caught"]]
  /\ UNCHANGED <<clock, fetchCache, alarms, pendingGet, badge>>

\* onAlarm: the allowed instances are known; fetchAndUpdate(hosts) is called
\* when there is at least one host.
OnAlarmLoaded(i, hosts) ==
  /\ passes[i].pc = "load"
  /\ IF Len(hosts) > 0
       THEN LET p == StartedFetch(passes[i], hosts, fetchCache, clock)
            IN /\ passes' = [passes EXCEPT ![i] = PassAfterJoin(p)]
               /\ alarms' = AlarmsAfterJoin(p)
               /\ badge' = BadgeAfterJoin(p)
       ELSE /\ passes' = [passes EXCEPT ![i] =
                 [UnusedPass EXCEPT !.origin = passes[i].origin,
                                    !.pc = "done", !.outcome = "skipped"]]
            /\ UNCHANGED <<alarms, badge>>
  /\ UNCHANGED <<clock, fetchCache, pendingGet>>

\* Variant: fetchCls without its check of hosts.length.
GetSearchResults_NoCheck(hosts) ==
  /\ Free("getSearchResults")
  /\ LET p == StartedFetch(ProxyCalled(<<"getSearchResults", hosts>>),
                           hosts, fetchCache, clock)
     IN /\ passes' = [passes EXCEPT !["getSearchResults"] = PassAfterJoin(p)]
        /\ alarms' = AlarmsAfterJoin(p)
        /\ badge' = BadgeAfterJoin(p)
  /\ UNCHANGED <<clock, fetchCache, pendingGet>>

\* chrome.runtime.onMessage: a message whose first element is no operation
\* of the handler.  handler[request[0]] is undefined, or is a function that
\* returns no promise, and the listener throws a TypeError before then().
UnknownCommand(command) ==
  /\ Free("getSearchResults")
  /\ passes' = [passes EXCEPT !["getSearchResults"] =
       [UnusedPass EXCEPT !.origin = "onMessage",
                          !.pc = "done",
                          !.outcome = "TypeError",
                          !.request = <<command>>,
                          !.channel = <<[ev |-> "throw", error |-> "TypeError"]>>]]
  /\ UNCHANGED <<clock, fetchCache, alarms, pendingGet, badge>>

\* chrome.runtime.onMessage: ['getSearchResults', hosts] from the popup.
GetSearchResults(hosts) ==
  /\ Free("getSearchResults")
  /\ LET i == "getSearchResults"
         p0 == ProxyCalled(<<"getSearchResults", hosts>>)
     IN IF Len(hosts) = 0
          THEN /\ passes' = [passes EXCEPT ![i] =
                     [p0 EXCEPT !.pc = "done", !.outcome = NO_HOST_ALLOWED,
                                !.channel = ReplyError(@, NO_HOST_ALLOWED)]]
               /\ UNCHANGED <<alarms, badge>>
          ELSE LET p == StartedFetch(p0, hosts, fetchCache, clock)
               IN /\ passes' = [passes EXCEPT ![i] = PassAfterJoin(p)]
                  /\ alarms' = AlarmsAfterJoin(p)
                  /\ badge' = BadgeAfterJoin(p)
  /\ UNCHANGED <<clock, fetchCache, pendingGet>>

\* Variant: a rejection is not caught per host and ends the whole call (as
\* with Promise.all and no try/catch); nothing is cached.
FetchRejects_Abort(i, h, error) ==
  /\ passes[i].pc = "fetch"
  /\ h \in passes[i].inflight
  /\ passes' = [passes EXCEPT ![i] =
       [UnusedPass EXCEPT !.pc = "done", !.outcome = error.message]]
  /\ UNCHANGED <<clock, fetchCache, alarms, pendingGet, badge>>

\* Variant: the failure is reported but not written to the cache.
FetchRejects_NotCached(i, h, error) ==
  /\ passes[i].pc = "fetch"
  /\ h \in passes[i].inflight
  /\ LET p == [passes[i] EXCEPT
                 !.inflight = @ \ {h},
                 !.errors = Append(@, [host |-> h, error |-> error])]
     IN /\ passes' = [passes EXCEPT ![i] = PassAfterJoin(p)]
        /\ alarms' = AlarmsAfterJoin(p)
        /\ badge' = BadgeAfterJoin(p)
  /\ UNCHANGED <<clock, fetchCache, pendingGet>>

\* gerrit.fetchAccount or gerrit.fetchReviews rejects: the catch branch.
FetchRejects(i, h, error) ==
  /\ passes[i].pc = "fetch"
  /\ h \in passes[i].inflight
  /\ fetchCache' = [fetchCache EXCEPT ![h] = <<clock, [error |-> error]>>]
  /\ LET p == [passes[i] EXCEPT
                 !.inflight = @ \ {h},
                 !.errors = Append(@, [host |-> h, error |-> error])]
     IN /\ passes' = [passes EXCEPT ![i] = PassAfterJoin(p)]
        /\ alarms' = AlarmsAfterJoin(p)
        /\ badge' = BadgeAfterJoin(p)
  /\ UNCHANGED <<clock, pendingGet>>

\* gerrit.fetchAccount, then gerrit.fetchReviews resolve: the try branch.
FetchResolves(i, h, reviews) ==
  /\ passes[i].pc = "fetch"
  /\ h \in passes[i].inflight
  /\ fetchCache' = [fetchCache EXCEPT ![h] = <<clock, [reviews |-> reviews]>>]
  /\ LET p == [passes[i] EXCEPT
                 !.inflight = @ \ {h},
                 !.results = Append(@, reviews)]
     IN /\ passes' = [passes EXCEPT ![i] = PassAfterJoin(p)]
        /\ alarms' = AlarmsAfterJoin(p)
        /\ badge' = BadgeAfterJoin(p)
  /\ UNCHANGED <<clock, pendingGet>>

\* Variant: onAlarm without its try/catch.
NotifySettles_Uncaught(i, ok) ==
  /\ passes[i].pc = "notify"
  /\ passes' = [passes EXCEPT ![i] =
       [UnusedPass EXCEPT
          !.origin = passes[i].origin,
          !.pc = "done",
          !.outcome = IF ok THEN "returned" ELSE NotifyError,
          !.request = passes[i].request,
          !.sinks = passes[i].sinks,
          !.channel = IF passes[i].origin # "onMessage" THEN passes[i].channel
                      ELSE IF ok THEN ReplyValue(passes[i].channel, passes[i])
                      ELSE ReplyError(passes[i].channel, NotifyError)]]
  /\ UNCHANGED <<clock, fetchCache, alarms, pendingGet, badge>>

\* notifications.notify settles: fetchAndUpdate returns or rejects.  onAlarm
\* catches a rejection; the message proxy replies with the value or with the
\* error as a string.
NotifySettles(i, ok) ==
  /\ passes[i].pc = "notify"
  /\ passes' = [passes EXCEPT ![i] =
       [UnusedPass EXCEPT
          !.origin = passes[i].origin,
          !.pc = "done",
          !.outcome = IF ok THEN "returned"
                      ELSE IF passes[i].origin # "onMessage" THEN "caught"
                      ELSE NotifyError,
          !.request = passes[i].request,
          !.sinks = passes[i].sinks,
          !.channel = IF passes[i].origin # "onMessage" THEN passes[i].channel
                      ELSE IF ok THEN ReplyValue(passes[i].channel, passes[i])
                      ELSE ReplyError(passes[i].channel, NotifyError)]]
  /\ UNCHANGED <<clock, fetchCache, alarms, pendingGet, badge>>

Next ==
  \/ Tick
  \/ \E kept \in BOOLEAN : OnInstalled(kept)
  \/ \E kept \in BOOLEAN : OnStartup(kept)
  \/ AlarmsGetCallback
  \/ AlarmFires
  \/ \E i \in PassIds : OnAlarmLoadFails(i)
  \/ \E i \in PassIds, hosts \in HostLists : OnAlarmLoaded(i, hosts)
  \/ \E command \in UnknownCommands : UnknownCommand(command)
  \/ \E hosts \in HostLists : GetSearchResults(hosts)
  \/ \E i \in PassIds, h \in Hosts :
       \E e \in FetchErrors(h) : FetchRejects(i, h, e)
  \/ \E i \in PassIds, h \in Hosts :
       \E r \in ReviewsOf(h) : FetchResolves(i, h, r)
  \/ \E i \in PassIds, ok \in BOOLEAN : NotifySettles(i, ok)

Spec == Init /\ [][Next]_vars

\* The fetch of host h that invocation i awaits settles, one way or the
\* other.
FetchSettles(i, h) ==
  \/ \E e \in FetchErrors(h) : FetchRejects(i, h, e)
  \/ \E r \in ReviewsOf(h) : FetchResolves(i, h, r)

\* The client of every host answers in the end: a fetch that is awaited does
\* not stay pending for ever.
FetchesSettle == \A i \in PassIds, h \in Hosts : WF_vars(FetchSettles(i, h))

\* One lifetime of the service worker, from the evaluation of the module
\* until the browser stops it: every listener but onInstalled and onStartup,
\* which only run in a worker that has just been started.
LifetimeNext ==
  \/ Tick
  \/ AlarmFires
  \/ \E i \in PassIds : OnAlarmLoadFails(i)
  \/ \E i \in PassIds, hosts \in HostLists : OnAlarmLoaded(i, hosts)
  \/ \E command \in UnknownCommands : UnknownCommand(command)
  \/ \E hosts \in HostLists : GetSearchResults(hosts)
  \/ \E i \in PassIds, h \in Hosts :
       \E e \in FetchErrors(h) : FetchRejects(i, h, e)
  \/ \E i \in PassIds, h \in Hosts :
       \E r \in ReviewsOf(h) : FetchResolves(i, h, r)
  \/ \E i \in PassIds, ok \in BOOLEAN : NotifySettles(i, ok)

\* A lifetime of the service worker with clients that always answer.
LiveSpec == Init /\ [][LifetimeNext]_vars /\ FetchesSettle

\* --------------------------------------------------------- properties
\* How often host h occurs in a results or errors list.
Count(seq, h) == Cardinality({ k \in 1..Len(seq) : seq[k].host = h })

\* Slot i enters fetchCls in this step.
StartsFetchCls(i) ==
  /\ passes[i].pc \in {"unused", "done", "load"}
  /\ passes'[i].pc \in {"fetch", "notify"}

\* Slot i is suspended in fetchCls before this step and still holds the same
\* invocation after it.
ContinuesFetchCls(i) ==
  /\ passes[i].pc = "fetch"
  /\ passes'[i].pc \in {"fetch", "notify"}

\* The entry of host h is younger than the cache duration, by the clock.
YoungEntry(h) ==
  /\ fetchCache[h] # NoEntry
  /\ clock - fetchCache[h][1] < REVIEW_CACHE_DURATION

\* The step restarts the service worker.
WorkerRestarts ==
  /\ passes'["onAlarm"].pc = "load"
  /\ \A h \in Hosts : fetchCache'[h] = NoEntry

\* C1: a host whose entry is younger than the TTL when fetchCls starts is
\* answered from the cache: a cached failure goes to errors, a cached success
\* to results, no fetch is started for it by this call, now or later, and this
\* call never writes its entry (the entry and its timestamp stay as they are
\* unless another call that was fetching the host settles).
C1_Start(i) ==
  StartsFetchCls(i) =>
    \A h \in passes'[i].hosts :
      YoungEntry(h) =>
        /\ h \notin passes'[i].inflight
        /\ fetchCache'[h] = fetchCache[h]
        /\ IF "error" \in DOMAIN fetchCache[h][2]
             THEN /\ Count(passes'[i].errors, h) = 1
                  /\ Count(passes'[i].results, h) = 0
                  /\ [host |-> h, error |-> fetchCache[h][2].error]
                       \in Range(passes'[i].errors)
             ELSE /\ Count(passes'[i].results, h) = 1
                  /\ Count(passes'[i].errors, h) = 0
                  /\ fetchCache[h][2].reviews \in Range(passes'[i].results)

C1_Later(i) ==
  ContinuesFetchCls(i) =>
    \A h \in passes[i].reused :
      /\ h \notin passes'[i].inflight
      /\ Count(passes'[i].results, h) = Count(passes[i].results, h)
      /\ Count(passes'[i].errors, h) = Count(passes[i].errors, h)
      /\ fetchCache'[h] # fetchCache[h] =>
           \E j \in PassIds \ {i} :
             h \in passes[j].inflight /\ h \notin passes'[j].inflight

C1_FreshEntryReused ==
  [][\A i \in PassIds : C1_Start(i) /\ C1_Later(i)]_vars

\* A call is suspended in fetchCls having answered one host from the cache.
C1_Witness ==
  \E i \in PassIds :
    /\ passes[i].pc = "fetch"
    /\ \E h \in passes[i].reused : Count(passes[i].errors, h) = 1

\* C2: a host with no entry, or an entry at least TTL old, gets one fetch
\* attempt (it is in flight once and never again in that call); when the
\* attempt settles the entry is overwritten with the outcome and the time of
\* the write, on success and on failure, and an entry holds exactly one of
\* reviews and error.
C2_Start(i) ==
  StartsFetchCls(i) =>
    \A h \in passes'[i].hosts :
      ~YoungEntry(h) =>
        /\ h \in passes'[i].inflight
        /\ Count(passes'[i].results, h) = 0
        /\ Count(passes'[i].errors, h) = 0

C2_Settle(i) ==
  ContinuesFetchCls(i) =>
    /\ passes'[i].inflight \subseteq passes[i].inflight
    /\ \A h \in passes[i].inflight \ passes'[i].inflight :
         /\ fetchCache'[h] # NoEntry
         /\ fetchCache'[h][1] = clock
         /\ IF "error" \in DOMAIN fetchCache'[h][2]
              THEN /\ Count(passes'[i].errors, h) = 1
                   /\ Count(passes'[i].results, h) = 0
                   /\ passes'[i].errors[Len(passes'[i].errors)] =
                        [host |-> h, error |-> fetchCache'[h][2].error]
              ELSE /\ Count(passes'[i].results, h) = 1
                   /\ Count(passes'[i].errors, h) = 0
                   /\ passes'[i].results[Len(passes'[i].results)] =
                        fetchCache'[h][2].reviews

C2_EntryShape ==
  \A h \in Hosts :
    fetchCache[h] # NoEntry =>
      DOMAIN fetchCache[h][2] \in { {"reviews"}, {"error"} }

C2_StaleEntryRefetched ==
  /\ []C2_EntryShape
  /\ [][\A i \in PassIds : C2_Start(i) /\ C2_Settle(i)]_vars

\* A call waits for one host after the failed attempt for another host has
\* written that host's entry, stamped with the time of the write.
C2_Witness ==
  \E i \in PassIds :
    /\ passes[i].pc = "fetch"
    /\ \E h \in passes[i].hosts \ (passes[i].inflight \cup passes[i].reused) :
         /\ Count(passes[i].errors, h) = 1
         /\ fetchCache[h] = <<clock, [error |-> passes[i].errors[1].error]>>
         /\ clock > 0

\* C3: a failing host neither ends the call nor skips another host: the
\* failure only takes that host out of flight, and when fetchCls has returned
\* every host of the set is exactly once in results or errors and has a cache
\* entry.
C3_Returned(i) ==
  passes[i].pc = "notify" =>
    /\ passes[i].hosts # {}
    /\ \A h \in passes[i].hosts :
         /\ Count(passes[i].results, h) + Count(passes[i].errors, h) = 1
         /\ fetchCache[h] # NoEntry
    /\ \A h \in Hosts \ passes[i].hosts :
         Count(passes[i].results, h) + Count(passes[i].errors, h) = 0

C3_FailureContained(i) ==
  /\ (passes[i].pc = "fetch" /\ passes'[i].pc \notin {"fetch", "notify"})
       => WorkerRestarts
  /\ (ContinuesFetchCls(i) /\ Len(passes'[i].errors) > Len(passes[i].errors)) =>
       /\ Len(passes'[i].errors) = Len(passes[i].errors) + 1
       /\ passes'[i].results = passes[i].results
       /\ passes'[i].inflight =
            passes[i].inflight \ {passes'[i].errors[Len(passes'[i].errors)].host}
       /\ passes'[i].pc = "fetch" <=> passes'[i].inflight # {}

C3_PartialFailureIsolated ==
  /\ [](\A i \in PassIds : C3_Returned(i))
  /\ [][\A i \in PassIds : C3_FailureContained(i)]_vars

\* fetchCls has returned one host's reviews and the other host's failure.
C3_Witness ==
  \E i \in PassIds :
    /\ passes[i].pc = "notify"
    /\ passes[i].hosts = Hosts
    /\ Len(passes[i].results) = 1
    /\ Len(passes[i].errors) = 1
    /\ \A h \in Hosts : fetchCache[h] # NoEntry

\* C4: getSearchResults with an empty host array fails with NO_HOST_ALLOWED:
\* no host is put in flight, and the cache, the alarms and the badge are left
\* as they are; no call is ever inside fetchCls with an empty host set.
C4_EmptyRequest ==
  GetSearchResults(<<>>) =>
    /\ fetchCache' = fetchCache
    /\ alarms' = alarms
    /\ badge' = badge
    /\ \E i \in PassIds :
         /\ passes[i].pc \in {"unused", "done"}
         /\ passes'[i].pc = "done"
         /\ passes'[i].outcome = NO_HOST_ALLOWED
         /\ passes'[i].inflight = {}
         /\ \A j \in PassIds \ {i} : passes'[j] = passes[j]

C4_EmptyHostSetRejected ==
  /\ [](\A i \in PassIds :
          passes[i].pc \in {"fetch", "notify"} => passes[i].hosts # {})
  /\ [][C4_EmptyRequest]_vars

\* A request with no host has been rejected while the cache holds an entry.
C4_Witness ==
  /\ \E i \in PassIds : passes[i].outcome = NO_HOST_ALLOWED
  /\ \E h \in Hosts : fetchCache[h] # NoEntry

\* C5: fetchCls has returned (update has run, notify is awaited) only when no
\* host of the call is in flight and every host has settled; while a host is
\* in flight the call stays suspended in fetchCls.
C5_JoinAll ==
  \A i \in PassIds :
    /\ passes[i].pc = "notify" =>
         /\ passes[i].inflight = {}
         /\ Len(passes[i].results) + Len(passes[i].errors)
              = Cardinality(passes[i].hosts)
    /\ passes[i].pc = "fetch" =>
         /\ passes[i].inflight # {}
         /\ passes[i].inflight \subseteq passes[i].hosts
         /\ Len(passes[i].results) + Len(passes[i].errors)
              = Cardinality(passes[i].hosts \ passes[i].inflight)

\* fetchCls has returned after both hosts failed, B before A.
C5_Witness ==
  \E i \in PassIds :
    /\ passes[i].pc = "notify"
    /\ Len(passes[i].errors) = 2
    /\ passes[i].errors[1].host = "B"
    /\ fetchCache["A"] # NoEntry /\ fetchCache["B"] # NoEntry
    /\ fetchCache["B"][1] < fetchCache["A"][1]

\* C6: chrome.alarms never holds more than one alarm for the extension.
C6_AtMostOneAlarm == Cardinality(alarms) <= 1

\* An alarm is armed while the startup check is pending and a call is
\* suspended.
C6_Witness ==
  /\ Cardinality(alarms) = 1
  /\ pendingGet = 1
  /\ \E i \in PassIds : passes[i].pc = "fetch"

\* The alarm update() leaves behind at the current time.
RearmedAlarms == { [name |-> AlarmName, scheduledTime |-> clock + REFRESH_DELAY] }

\* Slot i holds an invocation started by `listener` that takes a step.
StepOfPass(i, listener) ==
  /\ passes[i].origin = listener
  /\ passes[i].pc \in {"load", "fetch", "notify"}
  /\ passes'[i] # passes[i]
  /\ passes'[i].origin = listener
  /\ passes'[i].pc \in {"fetch", "notify", "done"}

\* fetchCls returns in slot i in this step, so that update() runs.
UpdateRuns(i) == passes[i].pc # "notify" /\ passes'[i].pc = "notify"

\* C7 as stated: the request getSearchResults has cancelled and re-armed the
\* alarm by the time its per-host fetches are under way, and also when the
\* call fails.
C7_RearmedBeforeFetch ==
  [][\A hosts \in HostLists : GetSearchResults(hosts) => alarms' = RearmedAlarms]_vars

\* C7 amended: an on-demand refresh leaves the alarms alone while its hosts are
\* being fetched; update() clears and re-creates the alarm with the fixed
\* delay only when fetchCls has returned with no host in flight; a request
\* that fails on an empty host array does not touch the alarms.
C7_Step(i) ==
  /\ (/\ passes'[i].origin = "onMessage"
      /\ passes'[i] # passes[i]
      /\ passes'[i].pc = "fetch") => alarms' = alarms
  /\ (/\ passes'[i].origin = "onMessage"
      /\ UpdateRuns(i)) =>
        /\ alarms' = RearmedAlarms
        /\ passes'[i].inflight = {}

C7_RearmedAfterFetch ==
  [][/\ \A i \in PassIds : C7_Step(i)
     /\ GetSearchResults(<<>>) => alarms' = alarms]_vars

\* An on-demand refresh has one host settled and one in flight, and no alarm
\* is armed.
C7_Witness ==
  \E i \in PassIds :
    /\ passes[i].origin = "onMessage"
    /\ passes[i].pc = "fetch"
    /\ Len(passes[i].results) + Len(passes[i].errors) = 1
    /\ alarms = {}

\* C8 as stated: the invocation of onAlarm started by the alarm never arms
\* the alarm.
C8_FireDoesNotRearm ==
  [][\A i \in PassIds : StepOfPass(i, "onAlarm") => alarms' = alarms]_vars

\* C8 amended: the fire consumes the alarm; the invocation of onAlarm it
\* starts re-arms the alarm itself, with the fixed delay, at the moment its
\* fetchCls returns and update() runs, and at no other step.
C8_Step(i) ==
  StepOfPass(i, "onAlarm") =>
    IF UpdateRuns(i) THEN alarms' = RearmedAlarms ELSE alarms' = alarms

C8_FireRearmsInUpdate ==
  [][/\ \A i \in PassIds : C8_Step(i)
     /\ AlarmFires => alarms' = {}]_vars

\* The pass started by a fired alarm has run update(): the alarm is armed
\* again.
C8_Witness ==
  \E i \in PassIds :
    /\ passes[i].origin = "onAlarm"
    /\ passes[i].pc = "notify"
    /\ alarms = RearmedAlarms

\* Nothing is under way that could still arm the alarm.
Idle ==
  /\ pendingGet = 0
  /\ \A i \in PassIds : passes[i].pc \in {"unused", "done"}

\* C9 as stated, in the form a finite run refutes: once the handler of a fired
\* alarm has finished and nothing else is under way, an alarm is armed.
C9_ArmedAfterFire ==
  (Idle /\ \E i \in PassIds : passes[i].origin = "onAlarm") => alarms # {}

\* C10: whenever update() runs with a non-empty errors list, the badge
\* receives the error descriptor made from the first error's message, whether
\* or not there are results.
C10_Step(i) ==
  (UpdateRuns(i) /\ passes'[i].errors # <<>>) =>
    badge' = [ text  |-> "!",
               color |-> "red",
               title |-> <<"Error: ", passes'[i].errors[1].error.message>>,
               icon  |-> "ic_assignment_late" ]

C10_ErrorPrecedence == [][\A i \in PassIds : C10_Step(i)]_vars

\* update() has run with one host's reviews and the other host's error.
C10_Witness ==
  \E i \in PassIds :
    /\ passes[i].pc = "notify"
    /\ passes[i].results # <<>>
    /\ passes[i].errors # <<>>
    /\ CategoryMapHas(passes[i].results, "outgoing")
    /\ badge.text = "!"

\* How often an invocation has called the sink `name`.
Calls(sinks, name) == Cardinality({ k \in 1..Len(sinks) : sinks[k] = name })

\* The descriptor the priority list asks for: that of the label with the
\* least index among the labels with items and badge data, with the count
\* of that label as its text, else the default.
C11_Expected(results) ==
  LET qualifies(k) ==
        /\ CategoryCount(results, SECTION_ORDERING[k]) > 0
        /\ HasBadgeData(SECTION_ORDERING[k])
      ks == { k \in 1..Len(SECTION_ORDERING) : qualifies(k) }
  IN IF ks = {} THEN DEFAULT_BADGE_DATA
     ELSE LET k == CHOOSE k \in ks : \A m \in ks : k <= m
              label == SECTION_ORDERING[k]
              count == String(CategoryCount(results, label))
          IN [ text |-> count, color |-> label,
               title |-> <<label, count>>, icon |-> label ]

\* C11: when update() runs with an empty errors list, the badge receives the
\* descriptor of the first label of SECTION_ORDERING that is in the category
\* map and has badge data, its text being that category's count, whatever
\* later labels are present, and the default descriptor when no label
\* qualifies; the invocation has called updateBadge exactly once, and the
\* badge changes in no step other than one of update() or a restart.
C11_Step(i) ==
  (UpdateRuns(i) /\ passes'[i].errors = <<>>) =>
    /\ badge' = C11_Expected(passes'[i].results)
    /\ Calls(passes'[i].sinks, "updateBadge") = 1

C11_CategoryPriority ==
  [][/\ \A i \in PassIds : C11_Step(i)
     /\ badge' # badge => (WorkerRestarts \/ \E i \in PassIds : UpdateRuns(i))]_vars

\* update() has run on results that hold a category without badge data and
\* two categories with badge data: the badge shows the earlier of the two.
C11_Witness ==
  \E i \in PassIds :
    /\ passes[i].pc = "notify"
    /\ passes[i].errors = <<>>
    /\ CategoryMapHas(passes[i].results, "stale")
    /\ CategoryMapHas(passes[i].results, "outgoing")
    /\ CategoryMapHas(passes[i].results, "readyToSubmit")
    /\ Len(passes[i].results) = 2
    /\ badge.text = "2"
    /\ badge.color = "outgoing"

\* The message in slot i has been dealt with by the listener to the end.
Answered(i) == passes[i].pc = "done" /\ passes[i].request # <<>>

\* The responses handed to reply() on a channel, in order.
Replies(channel) ==
  LET ks == SelectSeq([k \in 1..Len(channel) |-> k],
                      LAMBDA k : channel[k].ev = "reply")
  IN [n \in 1..Len(ks) |-> channel[ks[n]].response]

\* C12 as stated: a message that names no operation of the handler is
\* answered with an { error: message } response.
C12_UnknownCommandAnswered ==
  \A i \in PassIds :
    (Answered(i) /\ passes[i].request[1] \notin Commands) =>
      \E k \in 1..Len(Replies(passes[i].channel)) :
        "error" \in DOMAIN Replies(passes[i].channel)[k]

\* C13: a message naming an operation of the handler has no response while
\* the operation is pending and exactly one once it has settled: { value: v }
\* with the returned results when fetchAndUpdate resolved, { error: s } with
\* s the text of String(error) when it rejected; a response has one of the
\* two keys, never both.
C13_ExactlyOneResponse ==
  \A i \in PassIds :
    (passes[i].request # <<>> /\ passes[i].request[1] \in Commands) =>
      LET replies == Replies(passes[i].channel)
      IN /\ passes[i].pc \in {"fetch", "notify", "done"}
         /\ passes[i].pc \in {"fetch", "notify"} => replies = <<>>
         /\ passes[i].pc = "done" =>
              /\ Len(replies) = 1
              /\ DOMAIN replies[1] \in { {"value"}, {"error"} }
              /\ "value" \in DOMAIN replies[1] <=> passes[i].outcome = "returned"
              /\ "error" \in DOMAIN replies[1] =>
                   /\ passes[i].outcome \in {NO_HOST_ALLOWED, NotifyError}
                   /\ replies[1].error = <<"Error: ", passes[i].outcome>>

\* A request for two hosts has been answered with an error after
\* notifications.notify rejected.
C13_Witness ==
  \E i \in PassIds :
    /\ Answered(i)
    /\ passes[i].request = <<"getSearchResults", <<"A", "B">>>>
    /\ passes[i].outcome = NotifyError
    /\ Replies(passes[i].channel) = <<[error |-> <<"Error: ", NotifyError>>]>>

\* C14: whenever the listener returns, it returns true exactly when reply
\* has not been called before the return; no reply follows a return of
\* false; and for a message naming an operation the return comes first on
\* the channel.
C14_ReturnReportsTiming ==
  \A i \in PassIds :
    LET channel == passes[i].channel
    IN /\ \A k \in 1..Len(channel) :
            channel[k].ev = "return" =>
              /\ channel[k].value = (~ \E j \in 1..(k - 1) : channel[j].ev = "reply")
              /\ ~channel[k].value =>
                   ~ \E j \in (k + 1)..Len(channel) : channel[j].ev = "reply"
       /\ (passes[i].request # <<>> /\ passes[i].request[1] \in Commands) =>
            channel[1].ev = "return"

\* A request without hosts: the promise was already rejected when the
\* listener returned true, and the error was sent after the return.
C14_Witness ==
  \E i \in PassIds :
    /\ passes[i].outcome = NO_HOST_ALLOWED
    /\ Len(passes[i].channel) = 2
    /\ passes[i].channel[1] = [ev |-> "return", value |-> TRUE]
    /\ passes[i].channel[2].ev = "reply"

\* The onStartup listener runs in this step: it asks chrome.alarms for the
\* alarm.
StartupRuns == \E kept \in BOOLEAN : OnStartup(kept)

\* The answer of chrome.alarms.get is delivered in this step.
CheckAnswered == pendingGet' < pendingGet /\ passes' = passes

\* C15: the restart check arms the alarm with the fixed delay when none is
\* armed and leaves an armed alarm as it is, touching nothing else; the
\* onStartup listener arms nothing itself and, whether or not an alarm is
\* armed, starts exactly one invocation of onAlarm.
C15_Step ==
  /\ CheckAnswered =>
       /\ alarms = {} => alarms' = RearmedAlarms
       /\ alarms # {} => alarms' = alarms
       /\ UNCHANGED <<fetchCache, badge>>
  /\ StartupRuns =>
       /\ alarms' \subseteq alarms
       /\ passes'["onAlarm"] = OnAlarmCalled("onStartup")
       /\ passes'["getSearchResults"] = UnusedPass
       /\ pendingGet' = 1

C15_RestartCheck == [][C15_Step]_vars

\* The check has been answered while an alarm of the last session was
\* armed; the alarm is kept with its time, and the invocation of onAlarm
\* started by the listener is under way.
C15_Witness ==
  /\ passes["onAlarm"].origin = "onStartup"
  /\ passes["onAlarm"].pc = "load"
  /\ passes["getSearchResults"].pc = "unused"
  /\ pendingGet = 0
  /\ \E a \in alarms : a.scheduledTime < clock + REFRESH_DELAY

\* A request for `hosts` arrives right after a request for the same hosts
\* has been answered with its results: every host still has a young entry,
\* and the entry holds what the first request got for the host.
SecondOfTwo(hosts) ==
  LET p == passes["getSearchResults"]
      first == Replies(p.channel)[1].value
  IN /\ hosts # <<>>
     /\ p.pc = "done"
     /\ p.outcome = "returned"
     /\ p.request = <<"getSearchResults", hosts>>
     /\ \A h \in Range(hosts) :
          /\ YoungEntry(h)
          /\ IF HasError(fetchCache[h][2])
               THEN [host |-> h, error |-> fetchCache[h][2].error]
                      \in Range(first.errors)
               ELSE fetchCache[h][2].reviews \in Range(first.results)

\* C16 as stated: the second of two such requests hands the badge the same
\* descriptor as the first, and leaves exactly one alarm.
C16_Idempotent ==
  [][\A hosts \in HostLists :
       (SecondOfTwo(hosts) /\ GetSearchResults(hosts)) =>
         /\ badge' = UpdateData(Replies(passes["getSearchResults"].channel)[1].value)
         /\ Cardinality(alarms') = 1]_vars

\* Slot i holds an invocation of onAlarm.
OfOnAlarm(i) == passes[i].origin \in {"onInstalled", "onStartup", "onAlarm"}

\* The alarm is due.
AlarmDue == \E a \in alarms : a.name = AlarmName /\ clock >= a.scheduledTime

\* C17: an invocation of onAlarm ends in one of three ways only: it
\* returned, it skipped the fetch for want of hosts, or it caught the error
\* (of loading the options or hosts, or of notify); the step that catches an
\* error changes nothing but the invocation; and once an invocation has
\* caught an error a due alarm can fire, which starts onAlarm anew.
C17_Ends ==
  \A i \in PassIds :
    OfOnAlarm(i) =>
      /\ passes[i].pc = "done" <=> passes[i].outcome \in {"returned", "skipped", "caught"}
      /\ passes[i].pc # "done" => passes[i].outcome = "none"
      /\ (passes[i].outcome = "caught" /\ AlarmDue) => ENABLED AlarmFires

C17_Step ==
  /\ \A i \in PassIds :
       (OfOnAlarm(i) /\ passes[i].pc # "done" /\ passes'[i].outcome = "caught") =>
         /\ passes[i].pc \in {"load", "notify"}
         /\ UNCHANGED <<fetchCache, alarms, badge>>
  /\ (AlarmFires /\ passes["onAlarm"].outcome = "caught") =>
       passes'["onAlarm"] = OnAlarmCalled("onAlarm")

C17_OnAlarmCatches == []C17_Ends /\ [][C17_Step]_vars

\* An invocation of onAlarm has caught the rejection of notify after it had
\* updated the badge, and the alarm it armed is due.
C17_Witness ==
  /\ passes["onAlarm"].outcome = "caught"
  /\ passes["onAlarm"].sinks = <<"updateBadge", "notify">>
  /\ AlarmDue

\* C18: an invocation whose fetchCls has returned has called updateBadge
\* and then notify, each once, the badge having received the descriptor of
\* that invocation's results and errors in the step in which notify was
\* called; before fetchCls returns, and in an invocation that ends without
\* hosts, neither has been called and the badge is left alone.
C18_Sinks ==
  \A i \in PassIds :
    /\ passes[i].pc \in {"unused", "load", "fetch"} => passes[i].sinks = <<>>
    /\ passes[i].pc = "notify" => passes[i].sinks = <<"updateBadge", "notify">>
    /\ passes[i].outcome \in {"returned", NotifyError} =>
         passes[i].sinks = <<"updateBadge", "notify">>
    /\ passes[i].outcome \in {"skipped", NO_HOST_ALLOWED} => passes[i].sinks = <<>>
    /\ Calls(passes[i].sinks, "notify") <= 1
    /\ Calls(passes[i].sinks, "updateBadge") <= 1

C18_Step(i) ==
  /\ UpdateRuns(i) =>
       /\ passes'[i].sinks = <<"updateBadge", "notify">>
       /\ badge' = UpdateData([results |-> passes'[i].results,
                               errors |-> passes'[i].errors])
  /\ (passes'[i] # passes[i] /\ passes'[i].outcome \in {"skipped", NO_HOST_ALLOWED}) =>
       badge' = badge
  /\ (passes[i].pc = "notify" /\ passes'[i].pc = "done") =>
       /\ passes'[i].sinks = passes[i].sinks
       /\ badge' = badge

C18_NotifyOnceAfterBadge ==
  []C18_Sinks /\ [][\A i \in PassIds : C18_Step(i)]_vars

\* The invocation of onAlarm has updated the badge with the count of one
\* host's reviews and then called notify, which has not settled.
C18_Witness ==
  /\ passes["onAlarm"].pc = "notify"
  /\ passes["onAlarm"].sinks = <<"updateBadge", "notify">>
  /\ Len(passes["onAlarm"].results) = 1
  /\ passes["onAlarm"].errors = <<>>
  /\ badge = UpdateData([results |-> passes["onAlarm"].results, errors |-> <<>>])
  /\ badge.text = "2"

\* C19: an invocation that starts while another one is fetching host h, h
\* having no young entry, puts h in flight itself and leaves the other
\* invocation as it is; when either fetch settles, the other invocation is
\* again left as it is and the entry of h becomes the outcome of the fetch
\* that has just settled, whatever the other fetch wrote before.
C19_Start(i) ==
  StartsFetchCls(i) =>
    \A j \in PassIds \ {i}, h \in passes'[i].hosts :
      (h \in passes[j].inflight /\ ~YoungEntry(h)) =>
        /\ h \in passes'[i].inflight
        /\ passes'[j] = passes[j]

C19_Settle(i) ==
  ContinuesFetchCls(i) =>
    \A h \in passes[i].inflight \ passes'[i].inflight :
      /\ \A j \in PassIds \ {i} : passes'[j] = passes[j]
      /\ fetchCache'[h] =
           IF Len(passes'[i].errors) > Len(passes[i].errors)
             THEN <<clock, [error |-> passes'[i].errors[Len(passes'[i].errors)].error]>>
             ELSE <<clock, [reviews |-> passes'[i].results[Len(passes'[i].results)]]>>

C19_NoSingleFlight ==
  [][\A i \in PassIds : C19_Start(i) /\ C19_Settle(i)]_vars

\* Two invocations have each fetched host A and still wait for host B: the
\* fetch of onAlarm resolved, that of getSearchResults was rejected, and the
\* entry of A holds the rejection.
C19_Witness ==
  /\ \A i \in PassIds :
       /\ passes[i].pc = "fetch"
       /\ passes[i].hosts = Hosts
       /\ passes[i].inflight = {"B"}
       /\ passes[i].reused = {}
  /\ Len(passes["onAlarm"].results) = 1
  /\ Len(passes["getSearchResults"].errors) = 1
  /\ HasError(fetchCache["A"][2])

\* C20 as stated: the step in which update() runs leaves the alarms as they
\* are, and the cache too when no fetch settles in that step.
C20_UpdatePure ==
  [][\A i \in PassIds :
       UpdateRuns(i) =>
         /\ alarms' = alarms
         /\ passes[i].pc # "fetch" => fetchCache' = fetchCache]_vars

\* C20 amended: update() does not touch the cache (in the step in which it
\* runs, an entry changes only for the host whose fetch settles in that
\* step, none when the call is answered from the cache), hands the badge the
\* descriptor of the combined outcome, and replaces the alarms by one alarm
\* set for the fixed delay from now.
C20_Step(i) ==
  UpdateRuns(i) =>
    /\ \A h \in Hosts :
         fetchCache'[h] # fetchCache[h] =>
           (passes[i].pc = "fetch" /\ passes[i].inflight = {h})
    /\ badge' = UpdateData([results |-> passes'[i].results,
                            errors |-> passes'[i].errors])
    /\ alarms' = RearmedAlarms
    /\ UNCHANGED <<clock, pendingGet>>

C20_UpdateRearms == [][\A i \in PassIds : C20_Step(i)]_vars

\* A request answered from the cache has run update() after the clock has
\* moved: the alarm is set for the fixed delay from now.
C20_Witness ==
  /\ passes["getSearchResults"].pc = "notify"
  /\ \A h \in passes["getSearchResults"].hosts : YoungEntry(h)
  /\ clock > 0
  /\ alarms = RearmedAlarms

\* C21: in a lifetime of the worker with clients that always answer, an
\* invocation suspended in fetchCls returns in the end, with no host in
\* flight.  While one host is in flight the invocation has not returned, so
\* a fetch that never settles holds it up for ever, and every other host of
\* the call already has its entry in the cache.
C21_HeldUp ==
  \A i \in PassIds :
    /\ passes[i].inflight # {} => passes[i].pc = "fetch"
    /\ passes[i].pc = "fetch" =>
         \A h \in passes[i].hosts \ passes[i].inflight : fetchCache[h] # NoEntry

C21_Stays(i) ==
  (passes[i].pc = "fetch" /\ passes'[i].pc # "fetch") =>
    /\ passes'[i].pc = "notify"
    /\ passes'[i].inflight = {}
    /\ Cardinality(passes[i].inflight) = 1

C21_Termination ==
  /\ []C21_HeldUp
  /\ [][\A i \in PassIds : C21_Stays(i)]_vars
  /\ \A i \in PassIds :
       (passes[i].pc = "fetch") ~> (passes[i].pc = "notify")

\* An invocation has fetched host A, whose entry is written, and is held
\* up by the fetch of host B.
C21_Witness ==
  \E i \in PassIds :
    /\ passes[i].pc = "fetch"
    /\ passes[i].hosts = Hosts
    /\ passes[i].reused = {}
    /\ passes[i].inflight = {"B"}
    /\ fetchCache["A"] # NoEntry
    /\ fetchCache["B"] = NoEntry

====
